---- MODULE Spec2Model ----
(***************************************************************************)
(* Model of src/schema-association-service.ts: locateSchemaFile and        *)
(* autoDetectSchema, the session cache seenOrganizations, the persisted    *)
(* workspace state 'azurePipelinesDetails', the detached organization      *)
(* prompt chain and the selectOrganizationEvent emitter.                   *)
(*                                                                         *)
(* Every call of locateSchemaFile is a process whose pc names the await it *)
(* is suspended at; the code between two awaits runs as one action, as the *)
(* extension host runs it (single-threaded, cooperative).                  *)
(***************************************************************************)
EXTENDS Integers, Sequences, FiniteSets, TLC

\* ---------------------------------------------------------------- bounds
MaxCalls == 3

Calls == 1..MaxCalls

\* ------------------------------------------------------------ the world
Undefined == "undefined"

WorkspaceNames == {"repo-a", "repo-b"}

\* accountName / organizationName strings
OrgNames == {"contoso", "Contoso", "fabrikam"}

\* String.prototype.toLowerCase on the organization names of the model
toLowerCase(s) == IF s = "Contoso" THEN "contoso" ELSE s

\* AzureSession: tenantId and what OrganizationsClient.listOrganizations
\* returns for its credentials (accountName of each organization, in order)
SessionA == [tenantId |-> "tenant-1", organizations |-> <<"Contoso">>]
SessionB == [tenantId |-> "tenant-2", organizations |-> <<"fabrikam">>]

\* values of azureAccountApi.sessions over a process lifetime
SessionLists == {<<>>, <<SessionA, SessionB>>, <<SessionB>>}

\* remote URLs of the upstream remote (fetchUrl), undefined when there is none
AzureReposUrl == [host |-> "dev.azure.com", organization |-> "contoso"]
GitHubUrl == [host |-> "github.com", organization |-> "contoso"]
RemoteUrls == {AzureReposUrl, GitHubUrl}

\* AzureDevOpsHelper.isAzureReposUrl
isAzureReposUrl(url) == url.host = "dev.azure.com"

\* AzureDevOpsHelper.getRepositoryDetailsFromRemoteUrl(url).organizationName
getRepositoryDetailsFromRemoteUrl(url) == [organizationName |-> url.organization]

\* values of the 'azure-pipelines.customSchemaFile' setting
ConfigValues == {"", "   ", "https://example.com/schema.json",
                 "HTTPS://EXAMPLE.COM/SCHEMA.JSON", "/opt/schema.json", "/schema.json",
                 "schemas/my.json"}

\* the values the setting takes in Spec: unset, and a path relative to the workspace
SpecConfigValues == {"", "schemas/my.json"}

\* line 54: s.trim().length === 0
trimIsEmpty(s) == s \in {"", "   "}
\* line 59: s.toLowerCase().startsWith("http://") || ...startsWith("https://")
startsWithHttp(s) == s \in {"https://example.com/schema.json", "HTTPS://EXAMPLE.COM/SCHEMA.JSON"}
\* line 61: path.isAbsolute(s)
isAbsolute(s) == s \in {"/opt/schema.json", "/schema.json", "<extensionPath>/service-schema.json"}
\* the path component of vscode.Uri.parse(s)
parsedPath(s) == IF s = "https://example.com/schema.json" THEN "/schema.json"
                 ELSE IF s = "HTTPS://EXAMPLE.COM/SCHEMA.JSON" THEN "/SCHEMA.JSON"
                 ELSE s

\* path.join(context.extensionPath, 'service-schema.json')
BundledSchema == "<extensionPath>/service-schema.json"

\* ------------------------------------------------------------- values
NoSession == [tenantId |-> "", organizations |-> <<>>]
NoUrl == [host |-> "", organization |-> ""]
NoEntry == [organization |-> "", tenant |-> ""]
NoResult == [kind |-> "", root |-> "", path |-> ""]
NoDetails == [w \in WorkspaceNames |-> NoEntry]

\* one file name for every organization
schemaUriShared(organizationName) ==
    [kind |-> "file", root |-> "<globalStorage>", path |-> "schema.json"]

\* Utils.joinPath(context.globalStorageUri, `${organizationName}-schema.json`)
schemaUri(organizationName) ==
    [kind |-> "file", root |-> "<globalStorage>", path |-> organizationName]

\* lines 76 and 270: uri.path, the path component of the Uri without its scheme
\* and authority
path(uri) ==
    IF uri.kind = "url" THEN [kind |-> "path", root |-> "", path |-> parsedPath(uri.path)]
    ELSE [kind |-> "path", root |-> uri.root, path |-> uri.path]

\* lines 53-67: the configured or bundled schema
staticSchema(config, workspaceFolder) ==
    LET alternateSchema == IF trimIsEmpty(config) THEN BundledSchema ELSE config
    IN  IF startsWithHttp(alternateSchema)
          THEN [kind |-> "url", root |-> "", path |-> alternateSchema]
        ELSE IF isAbsolute(alternateSchema)
          THEN [kind |-> "file", root |-> "", path |-> alternateSchema]
        ELSE IF workspaceFolder # Undefined
          THEN [kind |-> "file", root |-> workspaceFolder, path |-> alternateSchema]
        ELSE [kind |-> "file", root |-> "", path |-> BundledSchema]

\* how a call ends: it returns a location, or it rejects
\* (schemaUri is the local variable of lines 32, 37 and 60-66; caught is the error
\* the catch block of line 44 received)
Returned(loc) == [pc |-> "done", result |-> path(loc), schemaUri |-> loc, caught |-> "none"]
Threw == [pc |-> "threw", result |-> NoResult, schemaUri |-> NoResult, caught |-> "none"]

\* lines 53-76: the log statement of line 69-71 reads workspaceFolder.name
returnStatic(config, workspaceFolder) ==
    IF workspaceFolder = Undefined
      THEN [Threw EXCEPT !.schemaUri = staticSchema(config, workspaceFolder)]
      ELSE Returned(staticSchema(config, workspaceFolder))

\* the catch block with the re-throw its TODO announces
catchErrorRethrows(error, config, workspaceFolder) == [Threw EXCEPT !.caught = error]

\* lines 44-50: the catch block logs and falls through to line 53
catchError(error, config, workspaceFolder) ==
    [returnStatic(config, workspaceFolder) EXCEPT !.caught = error]

\* line 156 without the two toLowerCase calls
hasOrganizationCaseSensitive(organizations, organizationName) ==
    \E k \in 1..Len(organizations) : organizations[k] = organizationName

\* line 156: organizations.find(org => org.accountName.toLowerCase() === ...)
hasOrganization(organizations, organizationName) ==
    \E k \in 1..Len(organizations) :
        toLowerCase(organizations[k]) = toLowerCase(organizationName)

\* lines 153-160: first session, in order, whose organizations contain the name
RECURSIVE findSession(_, _)
findSession(sessionList, organizationName) ==
    IF sessionList = <<>> THEN NoSession
    ELSE LET azureSession == Head(sessionList)
         IN  IF hasOrganization(azureSession.organizations, organizationName)
               THEN azureSession
               ELSE findSession(Tail(sessionList), organizationName)

\* line 171: azureAccountApi.sessions.find(session => session.tenantId === details.tenant)
RECURSIVE findByTenant(_, _)
findByTenant(sessionList, tenant) ==
    IF sessionList = <<>> THEN NoSession
    ELSE IF Head(sessionList).tenantId = tenant THEN Head(sessionList)
    ELSE findByTenant(Tail(sessionList), tenant)

\* a cache lookup that never hits
seenHasNever(seen, organizationName) == FALSE

\* line 254: seenOrganizations.has(organizationName)
seenHas(seen, organizationName) == organizationName \in seen

\* line 268: seenOrganizations.add(organizationName)
seenAdd(seen, organizationName) == seen \cup {organizationName}

\* lines 196-203: the quick pick items, one per organization of each session
RECURSIVE organizationAndSessions(_)
organizationAndSessions(sessionList) ==
    IF sessionList = <<>> THEN {}
    ELSE {[label |-> Head(sessionList).organizations[k], data |-> Head(sessionList)] :
              k \in 1..Len(Head(sessionList).organizations)}
         \cup organizationAndSessions(Tail(sessionList))

\* lines 221-227: the object passed to workspaceState.update
updatedDetails(details, name, organizationName, session) ==
    [details EXCEPT ![name] = [organization |-> organizationName, tenant |-> session.tenantId]]

\* -------------------------------------------------------------- state
VARIABLES
    seenOrganizations,        \* the module-level Set
    azurePipelinesDetails,    \* context.workspaceState 'azurePipelinesDetails'
    sessions,                 \* azureAccountApi.sessions
    customSchemaFile,         \* the configuration setting
    call,                     \* the calls of locateSchemaFile
    prompt,                   \* the message chain a call detached: the sign-in
                              \* message (108-119) or the organization prompt (184-232)
    selectOrganizationEvent,  \* what each prompt chain fired
    fetchCount,               \* getYamlSchema requests issued, per organization
    files                     \* the schema files in global storage: the call whose
                              \* fetched schema each holds, 0 when there is no file

vars == <<seenOrganizations, azurePipelinesDetails, sessions, customSchemaFile,
          call, prompt, selectOrganizationEvent, fetchCount, files>>

IdleCall ==
    [pc |-> "idle", workspaceFolder |-> Undefined, organizationName |-> Undefined,
     branch |-> "none", session |-> NoSession, loop |-> <<>>, queried |-> 0,
     details |-> NoDetails, schemaUri |-> NoResult, caught |-> "none",
     result |-> NoResult, net |-> {}, atCheck |-> "none", errorMessages |-> 0]

NoPrompt == [state |-> "none", sessions |-> <<>>]
NoFiles == [uri \in {schemaUri(o) : o \in OrgNames} |-> 0]

Init ==
    /\ seenOrganizations = {}
    /\ azurePipelinesDetails = NoDetails
    /\ sessions \in SessionLists
    /\ customSchemaFile \in SpecConfigValues
    /\ call = [c \in Calls |-> IdleCall]
    /\ prompt = [c \in Calls |-> NoPrompt]
    /\ selectOrganizationEvent = [c \in Calls |-> <<>>]
    /\ fetchCount = [o \in OrgNames |-> 0]
    /\ files = NoFiles

\* the call ends with outcome e; its session and loop variables go out of scope
End(c, e) == [call EXCEPT ![c].pc = e.pc, ![c].result = e.result,
                          ![c].schemaUri = e.schemaUri, ![c].caught = e.caught,
                          ![c].session = NoSession, ![c].loop = <<>>]

\* ------------------------------------------------------ locateSchemaFile
\* lines 29-37 (and 51-76 when there is no workspace folder): the call starts
locateSchemaFile(c, workspaceFolder) ==
    /\ call[c].pc = "idle"
    /\ c > 1 => call[c - 1].pc # "idle"
    /\ call' = IF workspaceFolder = Undefined
                 THEN [End(c, returnStatic(customSchemaFile, workspaceFolder))
                          EXCEPT ![c].workspaceFolder = workspaceFolder]
                 ELSE [call EXCEPT ![c].pc = "waitForSubscriptions",
                                   ![c].workspaceFolder = workspaceFolder]
    /\ UNCHANGED <<seenOrganizations, azurePipelinesDetails, sessions, customSchemaFile,
                   prompt, selectOrganizationEvent, fetchCount, files>>

\* a catch block that also invalidates the cached organization of the failed call
RejectedInvalidates(c, at) ==
    /\ call[c].pc = at
    /\ call' = End(c, catchError("rejected", customSchemaFile, call[c].workspaceFolder))
    /\ seenOrganizations' = seenOrganizations \ {call[c].organizationName}
    /\ UNCHANGED <<azurePipelinesDetails, sessions, customSchemaFile,
                   prompt, selectOrganizationEvent, fetchCount, files>>

\* an awaited call of a collaborator rejects; lines 44-50 catch it
Rejected(c, at) ==
    /\ call[c].pc = at
    /\ call' = End(c, catchError("rejected", customSchemaFile, call[c].workspaceFolder))
    /\ UNCHANGED <<seenOrganizations, azurePipelinesDetails, sessions, customSchemaFile,
                   prompt, selectOrganizationEvent, fetchCount, files>>

\* the sign-in message awaited: the call stays suspended until it is answered
waitForSubscriptionsAwaitsSignIn(c) ==
    /\ call[c].pc = "waitForSubscriptions"
    /\ IF sessions = <<>>
         THEN /\ prompt' = [prompt EXCEPT ![c].state = "signIn"]
              /\ call' = [call EXCEPT ![c].pc = "showInformationMessage"]
         ELSE /\ call' = [call EXCEPT ![c].pc = "openRepository"]
              /\ UNCHANGED prompt
    /\ UNCHANGED <<seenOrganizations, azurePipelinesDetails, sessions, customSchemaFile,
                   selectOrganizationEvent, fetchCount, files>>

\* lines 95-121: getAzureAccountExtensionApi and waitForSubscriptions resolve;
\* without a login the sign-in message is shown, not awaited, and the call returns
waitForSubscriptions(c) ==
    /\ call[c].pc = "waitForSubscriptions"
    /\ IF sessions = <<>>
         THEN /\ prompt' = [prompt EXCEPT ![c].state = "signIn"]
              /\ call' = End(c, returnStatic(customSchemaFile, call[c].workspaceFolder))
         ELSE /\ call' = [call EXCEPT ![c].pc = "openRepository"]
              /\ UNCHANGED prompt
    /\ UNCHANGED <<seenOrganizations, azurePipelinesDetails, sessions, customSchemaFile,
                   selectOrganizationEvent, fetchCount, files>>

\* lines 236-241 without the showErrorMessage of line 239
noSessionSilent(c, organizationName) ==
    [End(c, returnStatic(customSchemaFile, call[c].workspaceFolder))
        EXCEPT ![c].organizationName = organizationName,
               ![c].branch = "azureRepo"]

\* lines 236-241: no session has access
noSession(c, organizationName) ==
    [End(c, returnStatic(customSchemaFile, call[c].workspaceFolder))
        EXCEPT ![c].organizationName = organizationName,
               ![c].branch = "azureRepo",
               ![c].errorMessages = @ + 1]

\* lines 148-160 with a persisted choice taking precedence over the URL
azureRepoPrefersDetails(c, remoteUrl) ==
    LET entry == azurePipelinesDetails[call[c].workspaceFolder]
        organizationName ==
            IF entry # NoEntry THEN entry.organization
            ELSE getRepositoryDetailsFromRemoteUrl(remoteUrl).organizationName
    IN  /\ call' = IF sessions = <<>>
                     THEN noSession(c, organizationName)
                     ELSE [call EXCEPT ![c].pc = "listOrganizations",
                                       ![c].branch = "azureRepo",
                                       ![c].organizationName = organizationName,
                                       ![c].loop = sessions,
                                       ![c].queried = 1,
                                       ![c].net = @ \cup {"listOrganizations"}]
        /\ UNCHANGED prompt

\* lines 148-160 up to the first listOrganizations request
azureRepo(c, remoteUrl) ==
    LET organizationName == getRepositoryDetailsFromRemoteUrl(remoteUrl).organizationName
    IN  /\ call' = IF sessions = <<>>
                     THEN noSession(c, organizationName)
                     ELSE [call EXCEPT ![c].pc = "listOrganizations",
                                       ![c].branch = "azureRepo",
                                       ![c].organizationName = organizationName,
                                       ![c].loop = sessions,
                                       ![c].queried = 1,
                                       ![c].net = @ \cup {"listOrganizations"}]
        /\ UNCHANGED prompt

\* a persisted choice whose tenant has no session treated like no choice at all
cachedDetailsFallsThrough(c, details) ==
    LET session == findByTenant(sessions, details.tenant)
    IN  IF session = NoSession
          THEN /\ prompt' = [prompt EXCEPT ![c].state = "shown"]
               /\ call' = [End(c, returnStatic(customSchemaFile, call[c].workspaceFolder))
                               EXCEPT ![c].details = azurePipelinesDetails,
                                      ![c].branch = "prompt"]
          ELSE /\ call' = [call EXCEPT ![c].pc = "createDirectory",
                                       ![c].branch = "cachedDetails",
                                       ![c].organizationName = details.organization,
                                       ![c].session = session]
               /\ UNCHANGED prompt

\* lines 167-175: the workspace folder has a persisted choice
cachedDetails(c, details) ==
    LET session == findByTenant(sessions, details.tenant)
    IN  /\ call' = IF session = NoSession
                     \* line 174 reads session.tenantId: TypeError, caught at line 44
                     THEN [End(c, catchError("TypeError", customSchemaFile,
                                             call[c].workspaceFolder))
                              EXCEPT ![c].organizationName = details.organization,
                                     ![c].branch = "cachedDetails"]
                     ELSE [call EXCEPT ![c].pc = "createDirectory",
                                       ![c].branch = "cachedDetails",
                                       ![c].organizationName = details.organization,
                                       ![c].session = session]
        /\ UNCHANGED prompt

\* the information message awaited: the call stays suspended on the prompt
promptForOrganizationAwaited(c) ==
    /\ prompt' = [prompt EXCEPT ![c].state = "shown"]
    /\ call' = [call EXCEPT ![c].pc = "showInformationMessage",
                            ![c].details = azurePipelinesDetails,
                            ![c].branch = "prompt"]

\* lines 177-232: show the information message without awaiting it, return undefined
promptForOrganization(c) ==
    /\ prompt' = [prompt EXCEPT ![c].state = "shown"]
    /\ call' = [End(c, returnStatic(customSchemaFile, call[c].workspaceFolder))
                    EXCEPT ![c].details = azurePipelinesDetails,
                           ![c].branch = "prompt"]

\* lines 126-234: the Git lookup resolves (or fails: no remote URL), then the
\* code runs to its next await
openRepository(c, remoteUrl) ==
    /\ call[c].pc = "openRepository"
    /\ IF remoteUrl # NoUrl /\ isAzureReposUrl(remoteUrl)
         THEN azureRepo(c, remoteUrl)
         ELSE IF azurePipelinesDetails[call[c].workspaceFolder] # NoEntry
                THEN cachedDetails(c, azurePipelinesDetails[call[c].workspaceFolder])
                ELSE promptForOrganization(c)
    /\ UNCHANGED <<seenOrganizations, azurePipelinesDetails, sessions, customSchemaFile,
                   selectOrganizationEvent, fetchCount, files>>

\* lines 153-160, 236-244: the organizations of the session being queried arrive;
\* break on a match, query the next session otherwise, give up after the last
listOrganizations(c) ==
    /\ call[c].pc = "listOrganizations"
    /\ LET azureSession == call[c].loop[call[c].queried]
       IN  call' = IF hasOrganization(azureSession.organizations, call[c].organizationName)
                     THEN [call EXCEPT ![c].pc = "createDirectory",
                                       ![c].session = azureSession,
                                       ![c].loop = <<>>]
                   ELSE IF call[c].queried < Len(call[c].loop)
                     THEN [call EXCEPT ![c].queried = @ + 1]
                     ELSE noSession(c, call[c].organizationName)
    /\ UNCHANGED <<seenOrganizations, azurePipelinesDetails, sessions, customSchemaFile,
                   prompt, selectOrganizationEvent, fetchCount, files>>

\* lines 244-261: the storage folder exists; check the session cache
createDirectory(c) ==
    /\ call[c].pc = "createDirectory"
    /\ LET organizationName == call[c].organizationName
           atCheck == IF organizationName \in seenOrganizations THEN "cached" ELSE "absent"
       IN  call' = IF seenHas(seenOrganizations, organizationName)
                     THEN [End(c, Returned(schemaUri(organizationName)))
                              EXCEPT ![c].atCheck = atCheck]
                     ELSE [call EXCEPT ![c].pc = "getToken",
                                       ![c].atCheck = atCheck,
                                       ![c].net = @ \cup {"getToken"}]
    /\ UNCHANGED <<seenOrganizations, azurePipelinesDetails, sessions, customSchemaFile,
                   prompt, selectOrganizationEvent, fetchCount, files>>

\* lines 261-265: the token arrives; request the schema
getToken(c) ==
    /\ call[c].pc = "getToken"
    /\ call' = [call EXCEPT ![c].pc = "getYamlSchema",
                            ![c].net = @ \cup {"getYamlSchema"}]
    /\ fetchCount' = [fetchCount EXCEPT ![call[c].organizationName] = @ + 1]
    /\ UNCHANGED <<seenOrganizations, azurePipelinesDetails, sessions, customSchemaFile,
                   prompt, selectOrganizationEvent, files>>

\* lines 265-266 with the organization cached as soon as its schema arrived
getYamlSchemaCachesEarly(c) ==
    /\ call[c].pc = "getYamlSchema"
    /\ call' = [call EXCEPT ![c].pc = "writeFile"]
    /\ seenOrganizations' = seenAdd(seenOrganizations, call[c].organizationName)
    /\ UNCHANGED <<azurePipelinesDetails, sessions, customSchemaFile,
                   prompt, selectOrganizationEvent, fetchCount, files>>

\* lines 265-266: the schema arrives; write it
getYamlSchema(c) ==
    /\ call[c].pc = "getYamlSchema"
    /\ call' = [call EXCEPT ![c].pc = "writeFile"]
    /\ UNCHANGED <<seenOrganizations, azurePipelinesDetails, sessions, customSchemaFile,
                   prompt, selectOrganizationEvent, fetchCount, files>>

\* lines 266-270 for a fetch that also persists the organization it resolved
writeFilePersists(c) ==
    /\ call[c].pc = "writeFile"
    /\ files' = [files EXCEPT ![schemaUri(call[c].organizationName)] = c]
    /\ seenOrganizations' = seenAdd(seenOrganizations, call[c].organizationName)
    /\ azurePipelinesDetails' =
           updatedDetails(azurePipelinesDetails, call[c].workspaceFolder,
                          call[c].organizationName, call[c].session)
    /\ call' = End(c, Returned(schemaUri(call[c].organizationName)))
    /\ UNCHANGED <<sessions, customSchemaFile,
                   prompt, selectOrganizationEvent, fetchCount>>

\* lines 266-270: the file is written (over the one that may be there) with the
\* schema this call fetched
writeFile(c) ==
    /\ call[c].pc = "writeFile"
    /\ files' = [files EXCEPT ![schemaUri(call[c].organizationName)] = c]
    /\ seenOrganizations' = seenAdd(seenOrganizations, call[c].organizationName)
    /\ call' = End(c, Returned(schemaUri(call[c].organizationName)))
    /\ UNCHANGED <<azurePipelinesDetails, sessions, customSchemaFile,
                   prompt, selectOrganizationEvent, fetchCount>>

\* the awaits of autoDetectSchema that can reject
Awaits == {"waitForSubscriptions", "listOrganizations", "createDirectory",
           "getToken", "getYamlSchema", "writeFile"}

\* --------------------------------------------- the detached sign-in chain
\* lines 108-110: the sign-in message is dismissed
dismissSignIn(c) ==
    /\ prompt[c].state = "signIn"
    /\ prompt' = [prompt EXCEPT ![c].state = "signInDismissed"]
    /\ UNCHANGED <<seenOrganizations, azurePipelinesDetails, sessions, customSchemaFile,
                   call, selectOrganizationEvent, fetchCount, files>>

\* lines 110-116: 'Sign in' is clicked; the azure-account.login command runs
signInLabel(c) ==
    /\ prompt[c].state = "signIn"
    /\ prompt' = [prompt EXCEPT ![c].state = "login"]
    /\ UNCHANGED <<seenOrganizations, azurePipelinesDetails, sessions, customSchemaFile,
                   call, selectOrganizationEvent, fetchCount, files>>

\* lines 115-117: the login command resolves (what it did to the sessions is
\* sessionsChanged)
login(c) ==
    /\ prompt[c].state = "login"
    /\ prompt' = [prompt EXCEPT ![c].state = "loginDone"]
    /\ UNCHANGED <<seenOrganizations, azurePipelinesDetails, sessions, customSchemaFile,
                   call, selectOrganizationEvent, fetchCount, files>>

SignInStates == {"signIn", "signInDismissed", "login", "loginDone"}

\* ------------------------------------------------ the detached prompt chain
\* line 187-188: the information message is dismissed
dismissMessage(c) ==
    /\ prompt[c].state = "shown"
    /\ prompt' = [prompt EXCEPT ![c].state = "dismissed"]
    /\ UNCHANGED <<seenOrganizations, azurePipelinesDetails, sessions, customSchemaFile,
                   call, selectOrganizationEvent, fetchCount, files>>

\* lines 188-212: 'Select organization' is clicked; the quick pick opens, loading
selectOrganizationLabel(c) ==
    /\ prompt[c].state = "shown"
    /\ prompt' = [prompt EXCEPT ![c].state = "loading", ![c].sessions = sessions]
    /\ UNCHANGED <<seenOrganizations, azurePipelinesDetails, sessions, customSchemaFile,
                   call, selectOrganizationEvent, fetchCount, files>>

\* lines 196-205: every session's organizations arrived and the promise resolves
\* (when a request rejects it never resolves: the quick pick stays loading)
organizationsLoaded(c) ==
    /\ prompt[c].state = "loading"
    /\ prompt' = [prompt EXCEPT ![c].state = "picking"]
    /\ UNCHANGED <<seenOrganizations, azurePipelinesDetails, sessions, customSchemaFile,
                   call, selectOrganizationEvent, fetchCount, files>>

\* the cancelled quick pick without the check of lines 214-216
cancelQuickPickPersists(c) ==
    /\ prompt[c].state \in {"loading", "picking"}
    /\ prompt' = [prompt EXCEPT ![c].state = "cancelled", ![c].sessions = <<>>]
    /\ azurePipelinesDetails' =
           updatedDetails(call[c].details, call[c].workspaceFolder, Undefined, NoSession)
    /\ UNCHANGED <<seenOrganizations, sessions, customSchemaFile,
                   call, selectOrganizationEvent, fetchCount, files>>

\* lines 214-216: the quick pick is cancelled
cancelQuickPick(c) ==
    /\ prompt[c].state \in {"loading", "picking"}
    /\ prompt' = [prompt EXCEPT ![c].state = "cancelled", ![c].sessions = <<>>]
    /\ UNCHANGED <<seenOrganizations, azurePipelinesDetails, sessions, customSchemaFile,
                   call, selectOrganizationEvent, fetchCount, files>>

\* lines 218-227: an item is picked; workspaceState.update is called
pickOrganization(c, item) ==
    /\ prompt[c].state = "picking"
    /\ item \in organizationAndSessions(prompt[c].sessions)
    /\ azurePipelinesDetails' =
           updatedDetails(call[c].details, call[c].workspaceFolder, item.label, item.data)
    /\ prompt' = [prompt EXCEPT ![c].state = "updating", ![c].sessions = <<>>]
    /\ UNCHANGED <<seenOrganizations, sessions, customSchemaFile,
                   call, selectOrganizationEvent, fetchCount, files>>

\* line 229: the update resolved; fire the event
fire(c) ==
    /\ prompt[c].state = "updating"
    /\ selectOrganizationEvent' =
           [selectOrganizationEvent EXCEPT ![c] = Append(@, call[c].workspaceFolder)]
    /\ prompt' = [prompt EXCEPT ![c].state = "selected"]
    /\ UNCHANGED <<seenOrganizations, azurePipelinesDetails, sessions, customSchemaFile,
                   call, fetchCount, files>>

\* ------------------------------------------------------- the environment
\* the user signs in or out, or access is revoked
sessionsChanged(sessionList) ==
    /\ sessionList # sessions
    /\ sessions' = sessionList
    /\ UNCHANGED <<seenOrganizations, azurePipelinesDetails, customSchemaFile,
                   call, prompt, selectOrganizationEvent, fetchCount, files>>

Next ==
    \/ \E c \in Calls, w \in WorkspaceNames \cup {Undefined} : locateSchemaFile(c, w)
    \/ \E c \in Calls, at \in Awaits : Rejected(c, at)
    \/ \E c \in Calls : waitForSubscriptions(c)
    \/ \E c \in Calls, u \in RemoteUrls \cup {NoUrl} : openRepository(c, u)
    \/ \E c \in Calls : listOrganizations(c)
    \/ \E c \in Calls : createDirectory(c)
    \/ \E c \in Calls : getToken(c)
    \/ \E c \in Calls : getYamlSchema(c)
    \/ \E c \in Calls : writeFile(c)
    \/ \E c \in Calls : dismissSignIn(c)
    \/ \E c \in Calls : signInLabel(c)
    \/ \E c \in Calls : login(c)
    \/ \E c \in Calls : dismissMessage(c)
    \/ \E c \in Calls : selectOrganizationLabel(c)
    \/ \E c \in Calls : organizationsLoaded(c)
    \/ \E c \in Calls : cancelQuickPick(c)
    \/ \E c \in Calls : \E item \in organizationAndSessions(prompt[c].sessions) :
           pickOrganization(c, item)
    \/ \E c \in Calls : fire(c)
    \/ \E l \in SessionLists : sessionsChanged(l)

Spec == Init /\ [][Next]_vars

\* ------------------------------------- the static fallback of lines 53-76
\* every value of the setting; calls that end before the Git lookup
InitStatic ==
    /\ seenOrganizations = {}
    /\ azurePipelinesDetails = NoDetails
    /\ sessions \in SessionLists
    /\ customSchemaFile \in ConfigValues
    /\ call = [c \in Calls |-> IdleCall]
    /\ prompt = [c \in Calls |-> NoPrompt]
    /\ selectOrganizationEvent = [c \in Calls |-> <<>>]
    /\ fetchCount = [o \in OrgNames |-> 0]
    /\ files = NoFiles

NextStatic ==
    \/ \E c \in Calls, w \in WorkspaceNames \cup {Undefined} : locateSchemaFile(c, w)
    \/ \E c \in Calls : Rejected(c, "waitForSubscriptions")
    \/ \E c \in Calls : waitForSubscriptions(c)

SpecStatic == InitStatic /\ [][NextStatic]_vars

\* ------------------------------------- the session search of lines 148-160
\* one call, an Azure Repos remote of any organization, any list of sessions
MaxSessions == 3
SessionC == [tenantId |-> "tenant-3", organizations |-> <<"contoso", "fabrikam">>]
MatchSessions == {SessionA, SessionB, SessionC}
MatchSessionLists == UNION {[1..n -> MatchSessions] : n \in 0..MaxSessions}
MatchUrls == {[host |-> "dev.azure.com", organization |-> o] :
                  o \in {"contoso", "Contoso", "fabrikam", "northwind"}}

InitMatch ==
    /\ seenOrganizations = {}
    /\ azurePipelinesDetails = NoDetails
    /\ sessions \in MatchSessionLists
    /\ customSchemaFile \in SpecConfigValues
    /\ call = [c \in Calls |-> IdleCall]
    /\ prompt = [c \in Calls |-> NoPrompt]
    /\ selectOrganizationEvent = [c \in Calls |-> <<>>]
    /\ fetchCount = [o \in OrgNames |-> 0]
    /\ files = NoFiles

NextMatch ==
    \/ \E w \in WorkspaceNames : locateSchemaFile(1, w)
    \/ waitForSubscriptions(1)
    \/ \E u \in MatchUrls : openRepository(1, u)
    \/ listOrganizations(1)

SpecMatch == InitMatch /\ [][NextMatch]_vars

\* ---------------------------------------------------------- properties
Started(c) == call[c].pc # "idle"
Static(c) == path(staticSchema(customSchemaFile, call[c].workspaceFolder))
Fetched(c) == path(schemaUri(call[c].organizationName))
\* the prompt chain of call c ran to the workspaceState.update of lines 221-227
Selected(c) == prompt[c].state \in {"updating", "selected"}

\* C1: a call with a workspace folder never rejects, whatever fails inside the
\* detection; when it has returned, its result is the fetched location of its
\* organization or the static fallback.
C1_NeverThrows ==
    \A c \in Calls :
        call[c].workspaceFolder # Undefined =>
            /\ call[c].pc # "threw"
            /\ call[c].pc = "done" => call[c].result \in {Fetched(c), Static(c)}

\* a call whose schema request was issued and then failed came back with the fallback
C1_Witness ==
    \E c \in Calls :
        /\ call[c].pc = "done"
        /\ "getYamlSchema" \in call[c].net
        /\ call[c].organizationName \notin seenOrganizations
        /\ call[c].result = Static(c)

\* C2: a call without a workspace folder returns the static fallback and makes
\* no network request.
C2_NoWorkspaceReturnsStatic ==
    \A c \in Calls :
        (Started(c) /\ call[c].workspaceFolder = Undefined) =>
            /\ call[c].pc = "done"
            /\ call[c].result = Static(c)
            /\ call[c].net = {}

\* C3 as stated: a call that reaches the cache check when its organization is
\* already cached has made no network request at all and returns the fetched
\* location.
C3_CacheHitNoNetwork ==
    \A c \in Calls :
        call[c].atCheck = "cached" =>
            /\ call[c].net = {}
            /\ call[c].pc = "done"
            /\ call[c].result = Fetched(c)

\* C3 as amended: such a call requests no token and no schema and returns the
\* fetched location; it has made no network request at all when the organization
\* came from the persisted choice, and only the organization-list queries of the
\* session search when it came from the remote URL.
C3_CacheHitNoFetch ==
    \A c \in Calls :
        call[c].atCheck = "cached" =>
            /\ call[c].net \subseteq {"listOrganizations"}
            /\ call[c].branch = "cachedDetails" => call[c].net = {}
            /\ call[c].pc = "done"
            /\ call[c].result = Fetched(c)

\* a call for a remote URL hit the cache after querying the organization lists
C3_Witness ==
    \E c \in Calls :
        /\ call[c].atCheck = "cached"
        /\ call[c].branch = "azureRepo"
        /\ call[c].pc = "done"

C5_CacheMonotonic == [][seenOrganizations \subseteq seenOrganizations']_vars

\* an organization is in the cache although a call that requested its schema
\* failed and returned the fallback
C5_Witness ==
    \E c \in Calls :
        /\ call[c].organizationName \in seenOrganizations
        /\ "getYamlSchema" \in call[c].net
        /\ call[c].pc = "done"
        /\ call[c].result = Static(c)

\* C6: whenever a call started the organization prompt, the call has already
\* returned the static fallback, whatever the state of the prompt, without a
\* network request; and the event has fired only for a prompt whose selection
\* was made and persisted.
C6_PromptNotAwaited ==
    \A c \in Calls :
        /\ prompt[c].state # "none" =>
               /\ call[c].pc = "done"
               /\ call[c].result = Static(c)
               /\ call[c].net = {}
        /\ selectOrganizationEvent[c] # <<>> => prompt[c].state = "selected"

\* the call has returned while its prompt is still unanswered, the user logged in
C6_Witness ==
    \E c \in Calls :
        /\ prompt[c].state = "shown"
        /\ call[c].pc = "done"
        /\ call[c].result = Static(c)
        /\ sessions # <<>>

\* C7: every workspace folder whose prompt ran to a selection has an entry in
\* the persisted azurePipelinesDetails.
C7_SelectionsAllPersisted ==
    \A c \in Calls :
        Selected(c) => azurePipelinesDetails[call[c].workspaceFolder] # NoEntry

\* C8: a prompt that was dismissed or cancelled has fired no event, and the step
\* that dismisses or cancels it changes neither the persisted details nor the
\* cache nor the events.
C8_DeclineChangesNothing ==
    /\ [](\A c \in Calls :
            prompt[c].state \in {"dismissed", "cancelled"} =>
                selectOrganizationEvent[c] = <<>>)
    /\ [][\A c \in Calls :
            (prompt[c].state # prompt'[c].state
                /\ prompt'[c].state \in {"dismissed", "cancelled"}) =>
                    /\ azurePipelinesDetails' = azurePipelinesDetails
                    /\ seenOrganizations' = seenOrganizations
                    /\ selectOrganizationEvent' = selectOrganizationEvent]_vars

\* one prompt was dismissed and another was cancelled
C8_Witness ==
    \E c, d \in Calls :
        /\ prompt[c].state = "dismissed"
        /\ prompt[d].state = "cancelled"

\* C9: when a call for a workspace folder whose selection was persisted earlier
\* finds no Azure Repos remote, it takes the persisted organization, a session of
\* the persisted tenant if it takes one, and starts no prompt.
C9_PersistedChoiceReused ==
    [][\A c \in Calls :
        (/\ call[c].pc = "openRepository"
         /\ call'[c].branch \in {"cachedDetails", "prompt"}
         /\ \E p \in Calls : Selected(p) /\ call[p].workspaceFolder = call[c].workspaceFolder)
        => LET details == azurePipelinesDetails[call[c].workspaceFolder]
           IN  /\ prompt'[c].state = "none"
               /\ details # NoEntry
               /\ call'[c].organizationName = details.organization
               /\ call'[c].session # NoSession =>
                      call'[c].session.tenantId = details.tenant]_vars

\* C10: when a call finds a persisted choice whose tenant no session has, it
\* returns the static fallback and shows one error message.
C10_RevokedShowsOneError ==
    [][\A c \in Calls :
        (/\ call[c].pc = "openRepository"
         /\ call'[c].branch = "cachedDetails"
         /\ findByTenant(sessions,
                azurePipelinesDetails[call[c].workspaceFolder].tenant) = NoSession)
        => /\ call'[c].pc = "done"
           /\ call'[c].result = Static(c)
           /\ call'[c].errorMessages = 1]_vars

\* C11: when a call finds no Azure Repos remote and the persisted choice of its
\* workspace folder names a tenant no session has, the call ends with the static
\* fallback in that step, and the step starts no organization prompt, leaves the
\* persisted details as they are and fires no event.
C11_RevokedDoesNotPrompt ==
    [][\A c \in Calls :
        (/\ call[c].pc = "openRepository"
         /\ call'[c].pc # "openRepository"
         /\ call'[c].branch # "azureRepo"
         /\ azurePipelinesDetails[call[c].workspaceFolder] # NoEntry
         /\ \A k \in 1..Len(sessions) :
                sessions[k].tenantId # azurePipelinesDetails[call[c].workspaceFolder].tenant)
        => /\ call'[c].pc = "done"
           /\ call'[c].result = Static(c)
           /\ prompt' = prompt
           /\ prompt[c].state = "none"
           /\ azurePipelinesDetails' = azurePipelinesDetails
           /\ selectOrganizationEvent' = selectOrganizationEvent]_vars

\* a call ended on the TypeError of the persisted branch; nothing was prompted
\* for it, and the persisted choice of its workspace folder is still there
C11_Witness ==
    \E c \in Calls :
        /\ call[c].caught = "TypeError"
        /\ call[c].branch = "cachedDetails"
        /\ call[c].pc = "done"
        /\ prompt[c].state = "none"
        /\ azurePipelinesDetails[call[c].workspaceFolder] # NoEntry

\* the position of the first session of the list whose organizations contain the
\* name, letter case apart; 0 when there is none
FirstMatch(sessionList, organizationName) ==
    LET matching == {k \in 1..Len(sessionList) :
                        \E j \in 1..Len(sessionList[k].organizations) :
                            toLowerCase(sessionList[k].organizations[j])
                                = toLowerCase(organizationName)}
    IN  IF matching = {} THEN 0
        ELSE CHOOSE k \in matching : \A j \in matching : k <= j

\* C12: for a call with an Azure Repos remote, the session search queries the
\* sessions in the order of the list and no session after the first whose
\* organizations contain the organization of the URL, letter case apart; that
\* first session is the one the call uses, and when no session matches every
\* session was queried and none is used.
C12_FirstMatchingSession ==
    \A c \in Calls :
        call[c].branch = "azureRepo" =>
            LET first == FirstMatch(sessions, call[c].organizationName)
            IN  /\ call[c].pc = "listOrganizations" =>
                       /\ call[c].queried >= 1
                       /\ call[c].queried <= IF first = 0 THEN Len(sessions) ELSE first
                       /\ call[c].session = NoSession
                /\ call[c].pc = "createDirectory" =>
                       /\ first # 0
                       /\ call[c].queried = first
                       /\ call[c].session = sessions[first]
                /\ call[c].pc = "done" =>
                       /\ first = 0
                       /\ call[c].queried = Len(sessions)
                       /\ call[c].session = NoSession

\* the second of three sessions was used: the first has no such organization,
\* the second has it in another letter case, the third, which has it too, was
\* not queried
C12_Witness ==
    \E c \in Calls :
        /\ call[c].pc = "createDirectory"
        /\ call[c].organizationName = "contoso"
        /\ sessions = <<SessionB, SessionA, SessionC>>
        /\ call[c].session = SessionA
        /\ call[c].queried = 2

\* C13: when a call with an Azure Repos remote finds no session at all, or the
\* last organization list arrives and no session of the searched list has the
\* organization of the URL, that step shows one error message and ends the call
\* with the static fallback; the call has requested no token and no schema and
\* never reached the cache check, and the step leaves the cache as it is. A call
\* that showed the message stays that way.
C13_NoAccessShowsError ==
    /\ [](\A c \in Calls :
            call[c].errorMessages > 0 =>
                /\ call[c].errorMessages = 1
                /\ call[c].pc = "done"
                /\ call[c].result = Static(c)
                /\ call[c].net \subseteq {"listOrganizations"}
                /\ call[c].atCheck = "none")
    /\ [][\A c \in Calls :
            (\/ /\ call[c].pc = "openRepository"
                /\ call'[c].branch = "azureRepo"
                /\ sessions = <<>>
             \/ /\ call[c].pc = "listOrganizations"
                /\ call'[c].pc # "listOrganizations"
                /\ call'[c].caught = "none"
                /\ FirstMatch(call[c].loop, call[c].organizationName) = 0)
            => /\ call'[c].errorMessages = 1
               /\ call'[c].pc = "done"
               /\ call'[c].result = Static(c)
               /\ call'[c].net \subseteq {"listOrganizations"}
               /\ seenOrganizations' = seenOrganizations
               /\ fetchCount' = fetchCount]_vars

\* a call queried the organizations of the only session, which has no access to
\* the organization of the URL, showed the error and returned the fallback
C13_Witness ==
    \E c \in Calls :
        /\ call[c].errorMessages = 1
        /\ call[c].branch = "azureRepo"
        /\ call[c].queried = 1
        /\ "listOrganizations" \in call[c].net
        /\ call[c].pc = "done"
        /\ call[c].result = Static(c)

\* C14: when waitForSubscriptions reports no login, that step ends the call with
\* the static fallback and leaves the sign-in message behind unanswered; the
\* step changes neither the cache nor the persisted details, and whatever
\* happens to the sign-in message or the login command afterwards, the call has
\* made no Git lookup, queried no organization list, requested no token and no
\* schema and never reached the cache check.
C14_NoLoginReturnsAtOnce ==
    /\ [](\A c \in Calls :
            prompt[c].state \in SignInStates =>
                /\ call[c].pc = "done"
                /\ call[c].result = Static(c)
                /\ call[c].branch = "none"
                /\ call[c].organizationName = Undefined
                /\ call[c].queried = 0
                /\ call[c].net = {}
                /\ call[c].atCheck = "none")
    /\ [][\A c \in Calls :
            (/\ call[c].pc = "waitForSubscriptions"
             /\ call'[c] # call[c]
             /\ call'[c].caught = "none"
             /\ sessions = <<>>)
            => /\ call'[c].pc = "done"
               /\ call'[c].result = Static(c)
               /\ prompt'[c].state = "signIn"
               /\ seenOrganizations' = seenOrganizations
               /\ azurePipelinesDetails' = azurePipelinesDetails
               /\ fetchCount' = fetchCount]_vars

\* two calls have returned the fallback: the sign-in message of one is still
\* unanswered, the login command of the other is still running
C14_Witness ==
    \E c, d \in Calls :
        /\ prompt[c].state = "signIn"
        /\ prompt[d].state = "login"
        /\ call[c].pc = "done" /\ call[c].result = Static(c)
        /\ call[d].pc = "done" /\ call[d].result = Static(d)

\* the location the claim names for a value of the setting and a workspace folder
ExpectedStatic(config, workspaceFolder) ==
    IF trimIsEmpty(config)
      THEN [kind |-> "file", root |-> "", path |-> BundledSchema]
    ELSE IF startsWithHttp(config)
      THEN [kind |-> "url", root |-> "", path |-> config]
    ELSE IF isAbsolute(config)
      THEN [kind |-> "file", root |-> "", path |-> config]
    ELSE IF workspaceFolder # Undefined
      THEN [kind |-> "file", root |-> workspaceFolder, path |-> config]
    ELSE [kind |-> "file", root |-> "<extensionPath>", path |-> config]

\* C15: for every value of the setting and every call, with or without a
\* workspace folder, the static location the call chose is the bundled default
\* for a blank value, the URL for an http(s) value, the file for an absolute
\* path, and otherwise the value joined to the workspace folder or, without a
\* workspace folder, to the extension's installation folder.
C15_StaticFallbackOrder ==
    \A c \in Calls :
        (call[c].schemaUri # NoResult /\ call[c].atCheck = "none") =>
            call[c].schemaUri = ExpectedStatic(customSchemaFile, call[c].workspaceFolder)

\* the call took its organization from an Azure Repos remote, and a session with
\* access was found or is among those the session search has yet to query
HasAccess(c) ==
    /\ call[c].branch = "azureRepo"
    /\ \/ call[c].session # NoSession
       \/ FirstMatch(call[c].loop, call[c].organizationName) # 0

\* what C16 says of the prompt and the persisted details: a call with an Azure
\* Repos remote has the organization of the URL whatever is persisted, has
\* started no prompt and has not read the persisted details
RemoteIgnoresDetails ==
    \A c \in Calls :
        call[c].branch = "azureRepo" =>
            /\ \E u \in RemoteUrls :
                   /\ isAzureReposUrl(u)
                   /\ call[c].organizationName
                          = getRepositoryDetailsFromRemoteUrl(u).organizationName
            /\ prompt[c].state = "none"
            /\ call[c].details = NoDetails

\* C16 as stated: a call with an Azure Repos remote for whose organization a
\* session has access returns the fetched location of that organization, starts
\* no prompt, and neither reads nor changes the persisted details.
C16_RemoteMatchReturnsFetched ==
    /\ []RemoteIgnoresDetails
    /\ [][\A c \in Calls :
            (HasAccess(c) /\ call'[c] # call[c]) =>
                /\ call'[c].pc = "done" => call'[c].result = Fetched(c)
                /\ prompt' = prompt
                /\ azurePipelinesDetails' = azurePipelinesDetails]_vars

\* C16 as amended: such a call returns the fetched location of that organization
\* unless one of its awaited requests is rejected, in which case it returns the
\* static fallback; either way it starts no prompt and neither reads nor changes
\* the persisted details.
C16_RemoteMatchNeverPrompts ==
    /\ []RemoteIgnoresDetails
    /\ [][\A c \in Calls :
            (HasAccess(c) /\ call'[c] # call[c]) =>
                /\ call'[c].pc = "done" =>
                       call'[c].result = IF call'[c].caught = "none" THEN Fetched(c)
                                         ELSE Static(c)
                /\ prompt' = prompt
                /\ azurePipelinesDetails' = azurePipelinesDetails]_vars

\* a call returned the fetched location of the URL's organization, found through
\* a session that has it in another letter case, although another organization
\* is persisted for its workspace folder
C16_Witness ==
    \E c \in Calls :
        /\ call[c].branch = "azureRepo"
        /\ call[c].pc = "done"
        /\ "getYamlSchema" \in call[c].net
        /\ call[c].result = Fetched(c)
        /\ azurePipelinesDetails[call[c].workspaceFolder] # NoEntry
        /\ azurePipelinesDetails[call[c].workspaceFolder].organization
               # call[c].organizationName

\* the step in which call c completes the write of the schema it fetched
Wrote(c) ==
    /\ call[c].pc = "writeFile"
    /\ call'[c].pc = "done"
    /\ call'[c].caught = "none"

\* C17: calls that fetched the same organization returned the same location,
\* whatever their workspace folders; each completed write goes to the location
\* of the call's organization and replaces what is there, and nothing else
\* changes a file, so a location holds the schema of the fetch that completed
\* last; and the organization of a written file is in the cache.
C17_SameLocationLatestContent ==
    /\ [](\A c, d \in Calls :
            (/\ call[c].pc = "done" /\ "getYamlSchema" \in call[c].net
             /\ call[d].pc = "done" /\ "getYamlSchema" \in call[d].net
             /\ call[c].caught = "none" /\ call[d].caught = "none"
             /\ call[c].organizationName = call[d].organizationName)
            => call[c].result = call[d].result)
    /\ [](\A o \in OrgNames :
            files[schemaUri(o)] # 0 =>
                /\ o \in seenOrganizations
                /\ call[files[schemaUri(o)]].organizationName = o
                /\ call[files[schemaUri(o)]].result = path(schemaUri(o)))
    /\ [][\A c \in Calls :
            Wrote(c) =>
                /\ files' = [files EXCEPT ![schemaUri(call[c].organizationName)] = c]
                /\ call'[c].result = path(schemaUri(call[c].organizationName))
                /\ call[c].organizationName \in seenOrganizations']_vars
    /\ [][files' # files => \E c \in Calls : Wrote(c)]_vars

\* two calls for different workspace folders both missed the cache, fetched the
\* same organization and wrote it; the file holds the schema of one of them
C17_Witness ==
    \E c, d \in Calls :
        /\ c # d
        /\ call[c].workspaceFolder # call[d].workspaceFolder
        /\ call[c].organizationName = call[d].organizationName
        /\ call[c].atCheck = "absent" /\ call[d].atCheck = "absent"
        /\ call[c].pc = "done" /\ call[d].pc = "done"
        /\ call[c].result = Fetched(c) /\ call[d].result = Fetched(d)
        /\ files[schemaUri(call[c].organizationName)] = d
        /\ d < c

\* C18: a step changes the persisted details only when it is the step in which
\* a prompt's quick pick is answered with an item, and then the workspace folder
\* of that prompt has an entry; a step changes the cache only when it is the
\* step in which a call completes the write of the schema it fetched, and then
\* it adds that call's organization and nothing else.
C18_SingleWriters ==
    /\ [][azurePipelinesDetails' # azurePipelinesDetails =>
            \E c \in Calls :
                /\ prompt[c].state = "picking"
                /\ prompt'[c].state = "updating"
                /\ azurePipelinesDetails'[call[c].workspaceFolder] # NoEntry]_vars
    /\ [][seenOrganizations' # seenOrganizations =>
            \E c \in Calls :
                /\ Wrote(c)
                /\ seenOrganizations'
                       = seenOrganizations \cup {call[c].organizationName}]_vars

\* a selection is persisted, and a later call for that workspace folder fetched
\* and cached the schema of the selected organization
C18_Witness ==
    \E c, d \in Calls :
        /\ prompt[c].state = "selected"
        /\ azurePipelinesDetails[call[c].workspaceFolder] # NoEntry
        /\ azurePipelinesDetails[call[c].workspaceFolder].organization \in seenOrganizations
        /\ call[d].workspaceFolder = call[c].workspaceFolder
        /\ call[d].branch = "cachedDetails"
        /\ call[d].atCheck = "absent"
        /\ call[d].pc = "done"
        /\ call[d].result = Fetched(d)

\* C19: every organization in the cache was put there by a call that requested
\* the token and the schema, wrote the file and returned the fetched location
\* without a failure; a step in which the token request, the schema request or
\* the write of a call is rejected leaves the cache as it is and ends the call
\* with the static fallback; and a call whose cache check finds its organization
\* absent requests the token.
C19_CachedOnlyAfterWrite ==
    /\ [](\A o \in seenOrganizations :
            /\ files[schemaUri(o)] # 0
            /\ \E c \in Calls :
                   /\ call[c].organizationName = o
                   /\ call[c].pc = "done"
                   /\ call[c].caught = "none"
                   /\ {"getToken", "getYamlSchema"} \subseteq call[c].net
                   /\ call[c].result = Fetched(c))
    /\ [](\A c \in Calls : call[c].atCheck = "absent" => "getToken" \in call[c].net)
    /\ [][\A c \in Calls :
            (/\ call[c].pc \in {"getToken", "getYamlSchema", "writeFile"}
             /\ call'[c].caught = "rejected")
            => /\ seenOrganizations' = seenOrganizations
               /\ files' = files
               /\ call'[c].pc = "done"
               /\ call'[c].result = Static(c)]_vars

\* the write of one call was rejected and the call returned the fallback; a
\* later call for the same organization found it absent from the cache and
\* requested the token and the schema again
C19_Witness ==
    \E c, d \in Calls :
        /\ c < d
        /\ call[c].caught = "rejected"
        /\ "getYamlSchema" \in call[c].net
        /\ call[c].result = Static(c)
        /\ call[d].organizationName = call[c].organizationName
        /\ call[d].atCheck = "absent"
        /\ "getYamlSchema" \in call[d].net
        /\ fetchCount[call[c].organizationName] = 2

\* C20: the prompt of a call fires the event at most once and with the workspace
\* folder of that call, only after its selection was written; and when it fires,
\* the persisted details have an entry for that workspace folder, which is what
\* a call made in response to the event needs in order to reuse the selection
\* instead of prompting again.
C20_FiredAfterPersisted ==
    /\ [](\A c \in Calls :
            /\ Len(selectOrganizationEvent[c]) <= 1
            /\ selectOrganizationEvent[c] # <<>> =>
                   /\ selectOrganizationEvent[c][1] = call[c].workspaceFolder
                   /\ prompt[c].state = "selected")
    /\ [][\A c \in Calls :
            selectOrganizationEvent'[c] # selectOrganizationEvent[c] =>
                /\ prompt[c].state = "updating"
                /\ azurePipelinesDetails'[call[c].workspaceFolder] # NoEntry]_vars

====
